---- MODULE Spec2Model ----
(***************************************************************************)
(* Model of tag_audit.py: the tag compliance auditor.                      *)
(*                                                                         *)
(* Spec    models one run of main(): authenticate, get_resources, the      *)
(*         audit loop, generate_summary, the output function, sys.exit.    *)
(* SpecFn  applies the functions audit_resource, generate_summary and      *)
(*         output_csv directly to inputs drawn in the initial state.       *)
(*                                                                         *)
(* Text is modelled as sequences of one-character strings where the code   *)
(* looks inside it (resource.id, split on '/'), and as TLA+ strings where  *)
(* it only copies or joins it.  compliance_rate, a float rounded to two    *)
(* decimals, is modelled as an integer number of hundredths of a percent   *)
(* (10000 is 100.0).                                                       *)
(***************************************************************************)
EXTENDS Integers, Sequences, FiniteSets, TLC

VARIABLES
    pc,             \* position in main() / in the function harness
    resource_group, \* self.resource_group: the optional scope (--resource-group)
    output_format,  \* args.output_format
    authOutcome,    \* what the provider did during authenticate()
    listOutcome,    \* what the provider did during the listing call
    listLog,        \* the listing calls issued on self.client.resources
    resources,      \* the list get_resources() returned
    idx,            \* position of the audit loop in resources
    audit_results,  \* the audit_results list
    lastAudit,      \* the last audit_resource call: its argument and outcome
    summary,        \* the summary dict, or NoSummary
    stdout,         \* lines written to sys.stdout
    stderr,         \* diagnostics written to sys.stderr
    raised,         \* the exception propagating out of run_audit, or "none"
    exitCode        \* the process exit status, or NotExited

vars == <<pc, resource_group, output_format, authOutcome, listOutcome, listLog,
          resources, idx, audit_results, lastAudit, summary, stdout, stderr,
          raised, exitCode>>

-----------------------------------------------------------------------------
(* Bounds of the model *)

\* longest resource list the provider returns
MaxLen == 2

\* length of the long all-compliant prefix of the large inputs of SpecFn
BulkLen == 20000

-----------------------------------------------------------------------------
(* Values *)

REQUIRED_TAGS == <<"environment", "owner", "project">>

\* Python's None for resource.tags, and a dict given as a function on its keys
NoneTags == [none |-> TRUE, map |-> <<>>]

Dict(keys, v) == [none |-> FALSE, map |-> [k \in keys |-> v]]

\* the string 'unknown'
Unknown == <<"u", "n", "k", "n", "o", "w", "n">>

\* "/s/x/r/g1/p": an Azure resource id, resource group g1 at index 4
FullId == <<"/", "s", "/", "x", "/", "r", "/", "g", "1", "/", "p">>

\* "a/b/c/d/e": exactly five segments
FiveSegId == <<"a", "/", "b", "/", "c", "/", "d", "/", "e">>

\* "////": five empty segments
SlashesId == <<"/", "/", "/", "/">>

\* "/a/b/c": has '/', four segments
FourSegId == <<"/", "a", "/", "b", "/", "c">>

\* "a/b": has '/', two segments
ShortId == <<"a", "/", "b">>

\* "ab" and "": no '/'
NoSlashId == <<"a", "b">>

EmptyId == <<>>

Resource(name, id, tags) ==
    [name |-> name, type |-> "Microsoft.Compute/virtualMachines", id |-> id,
     location |-> "eastus", tags |-> tags]

\* the tag mappings of the modelled resources: absent, empty, every subset of
\* the required keys, keys differing in case only, and empty-string values
TagOptions ==
    {NoneTags}
    \cup {Dict(ks, "x") : ks \in SUBSET {"environment", "owner", "project"}}
    \cup {Dict({"Environment"}, "x"), Dict({"Environment", "owner", "project"}, "x"),
          Dict({"environment", "owner", "project"}, "")}

Records ==
    {Resource("vm1", FullId, t) : t \in TagOptions}
    \cup {Resource("vm1", i, Dict({"environment"}, "prod")) :
            i \in {FiveSegId, SlashesId, FourSegId, ShortId, NoSlashId, EmptyId}}
    \cup {Resource("vm2", FullId, Dict({"environment", "owner", "project"}, "x"))}

RECURSIVE SeqsUpTo(_, _)
SeqsUpTo(S, n) ==
    IF n = 0 THEN {<<>>}
    ELSE LET shorter == SeqsUpTo(S, n - 1)
         IN  shorter \cup {Append(s, x) : s \in {t \in shorter : Len(t) = n - 1}, x \in S}

\* the records the provider lists in a run of main(): every shape of id, and
\* resources with all, two and none of the required tags
ListedRecords ==
    {r \in Records :
        \/ r.id # FullId
        \/ r.tags \in {NoneTags, Dict({"environment", "project"}, "x")}
        \/ r.name = "vm2"}

\* what the provider's listing can return
ResourceLists == SeqsUpTo(ListedRecords, MaxLen)

\* datetime.utcnow() at summarization time
Clock == {"2024-01-01T00:00:00", "2024-01-01T00:00:01"}

NoSummary == [none |-> TRUE]

NotExited == -1

NoAudit == [called |-> FALSE]

-----------------------------------------------------------------------------
(* Python helpers *)

\* '/' in s
HasSlash(s) == \E i \in 1..Len(s) : s[i] = "/"

\* s.split('/')
RECURSIVE Split(_)
Split(s) ==
    IF ~HasSlash(s) THEN <<s>>
    ELSE LET i == CHOOSE j \in 1..Len(s) : s[j] = "/" /\ \A k \in 1..(j - 1) : s[k] # "/"
         IN  <<SubSeq(s, 1, i - 1)>> \o Split(SubSeq(s, i + 1, Len(s)))

\* sep.join(parts)
RECURSIVE Join(_, _)
Join(sep, parts) ==
    IF parts = <<>> THEN ""
    ELSE IF Len(parts) = 1 THEN parts[1]
    ELSE parts[1] \o sep \o Join(sep, Tail(parts))

\* the double a / b, kept to 20 binary places (the quotients of 0..3 by 3 that
\* are not exact, 1/3 and 2/3, are rounded down by IEEE division as well)
FloatScale == 2 ^ 20

TrueDiv(a, b) == (a * FloatScale) \div b

\* int(x * 100) for a double x >= 0: truncation
IntTimes100(x) == (x * 100) \div FloatScale

\* round(num / den * 100, 2) in hundredths, for num / den * 10000 not halfway
\* between two integers (no modelled input is): the nearest integer
RoundRate(num, den) ==
    LET q == (num * 10000) \div den
        r == (num * 10000) % den
    IN  IF 2 * r > den \/ (2 * r = den /\ q % 2 = 1) THEN q + 1 ELSE q

-----------------------------------------------------------------------------
(* TagAuditor.audit_resource *)

\* resource.tags if resource.tags else {}
resource_tags(resource) ==
    IF resource.tags.none \/ DOMAIN resource.tags.map = {} THEN <<>>
    ELSE resource.tags.map

\* a variant of missing_tags that takes an empty tag value for an absent tag
missing_tagsByValue(resource) ==
    SelectSeq(REQUIRED_TAGS,
              LAMBDA tag : \/ tag \notin DOMAIN resource_tags(resource)
                           \/ resource_tags(resource)[tag] = "")

missing_tags(resource) ==
    SelectSeq(REQUIRED_TAGS, LAMBDA tag : tag \notin DOMAIN resource_tags(resource))

\* resource.id.split('/')[4] raises IndexError when the list is too short
AuditRaises(resource) == HasSlash(resource.id) /\ Len(Split(resource.id)) < 5

ResourceGroupOf(resource) ==
    IF HasSlash(resource.id) THEN Split(resource.id)[5] ELSE Unknown

\* a variant of compliance_percentage with floor division before the scaling
compliance_percentageFloorDiv(missing) ==
    ((Len(REQUIRED_TAGS) - Len(missing)) \div Len(REQUIRED_TAGS)) * 100

\* a variant of compliance_percentage that rounds to the nearest integer
compliance_percentageRounded(missing) ==
    (TrueDiv(Len(REQUIRED_TAGS) - Len(missing), Len(REQUIRED_TAGS)) * 100
     + FloatScale \div 2) \div FloatScale

compliance_percentage(missing) ==
    IntTimes100(TrueDiv(Len(REQUIRED_TAGS) - Len(missing), Len(REQUIRED_TAGS)))

audit_resource(resource) ==
    [resource_name |-> resource.name,
     resource_type |-> resource.type,
     resource_group |-> ResourceGroupOf(resource),
     location |-> resource.location,
     tags |-> resource_tags(resource),
     missing_tags |-> missing_tags(resource),
     compliant |-> Len(missing_tags(resource)) = 0,
     compliance_percentage |-> compliance_percentage(missing_tags(resource))]

-----------------------------------------------------------------------------
(* TagAuditor.generate_summary *)

\* a variant of CountCompliant that counts equal results once
CountCompliantDistinct(results) ==
    Cardinality({results[i] : i \in {j \in 1..Len(results) : results[j].compliant}})

CountCompliant(results) == Cardinality({i \in 1..Len(results) : results[i].compliant})

generate_summary(results, now) ==
    LET total_resources == Len(results)
        compliant_resources == CountCompliant(results)
    IN  [none |-> FALSE,
         audit_timestamp |-> now \o "Z",
         total_resources |-> total_resources,
         compliant_resources |-> compliant_resources,
         non_compliant_resources |-> total_resources - compliant_resources,
         compliance_rate |-> IF total_resources > 0
                             THEN RoundRate(compliant_resources, total_resources)
                             ELSE 0,
         required_tags |-> REQUIRED_TAGS]

-----------------------------------------------------------------------------
(* Output functions.  A line is what one print() or one csv writer call emits. *)

Emit(text) == [via |-> "print", text |-> text]

fieldnames ==
    <<"resource_name", "resource_type", "resource_group", "location",
      "compliant", "compliance_percentage", "missing_tags">>

csv_row(result) ==
    [via |-> "writerow",
     cells |-> <<result.resource_name, result.resource_type, result.resource_group,
                 result.location, result.compliant, result.compliance_percentage,
                 IF result.missing_tags # <<>> THEN Join(", ", result.missing_tags)
                 ELSE "none">>]

CsvComments(s) ==
    <<Emit(<<"# Audit Timestamp: ", s.audit_timestamp>>),
      Emit(<<"# Total Resources: ", s.total_resources>>),
      Emit(<<"# Compliant: ", s.compliant_resources>>),
      Emit(<<"# Non-Compliant: ", s.non_compliant_resources>>),
      Emit(<<"# Compliance Rate: ", s.compliance_rate, "%">>),
      Emit(<<>>)>>

\* a variant of output_csv that writes the header whatever the results
output_csvNoGuard(results, s) ==
    CsvComments(s)
    \o <<[via |-> "writeheader", cells |-> fieldnames]>>
    \o [i \in 1..Len(results) |-> csv_row(results[i])]

output_csv(results, s) ==
    CsvComments(s)
    \o (IF results # <<>>
        THEN <<[via |-> "writeheader", cells |-> fieldnames]>>
             \o [i \in 1..Len(results) |-> csv_row(results[i])]
        ELSE <<>>)

output_json(results, s) == <<Emit(<<[summary |-> s, results |-> results]>>)>>

Banner == Emit(<<"=", 80>>)

TextDetail(result) ==
    IF result.compliant THEN <<>>
    ELSE <<Emit(<<"\nResource: ", result.resource_name>>),
           Emit(<<"  Type: ", result.resource_type>>),
           Emit(<<"  Resource Group: ", result.resource_group>>),
           Emit(<<"  Missing Tags: ", Join(", ", result.missing_tags)>>),
           Emit(<<"  Compliance: ", result.compliance_percentage, "%">>)>>

RECURSIVE TextDetails(_)
TextDetails(results) ==
    IF results = <<>> THEN <<>>
    ELSE TextDetail(Head(results)) \o TextDetails(Tail(results))

output_text(results, s) ==
    <<Banner, Emit(<<"AZURE RESOURCE TAG COMPLIANCE AUDIT REPORT">>), Banner,
      Emit(<<"\nAudit Timestamp: ", s.audit_timestamp>>),
      Emit(<<"Required Tags: ", Join(", ", s.required_tags)>>),
      Emit(<<"\nSummary:">>),
      Emit(<<"  Total Resources: ", s.total_resources>>),
      Emit(<<"  Compliant: ", s.compliant_resources>>),
      Emit(<<"  Non-Compliant: ", s.non_compliant_resources>>),
      Emit(<<"  Compliance Rate: ", s.compliance_rate, "%">>),
      Emit(<<"\n", "=", 80>>)>>
    \o (IF s.non_compliant_resources > 0
        THEN <<Emit(<<"\nNON-COMPLIANT RESOURCES:">>), Emit(<<"-", 80>>)>>
             \o TextDetails(results)
        ELSE <<>>)
    \o <<Emit(<<"\n", "=", 80>>),
         Emit(<<"Audit complete. ", s.compliance_rate, "% compliant.">>),
         Banner>>

Render(format, results, s) ==
    IF format = "json" THEN output_json(results, s)
    ELSE IF format = "csv" THEN output_csv(results, s)
    ELSE output_text(results, s)

\* a variant of ExitStatus comparing with <= instead of <
ExitStatusInclusive(s) == IF s.compliance_rate <= 10000 THEN 1 ELSE 0

\* sys.exit status at the end of main(): 1 if summary['compliance_rate'] < 100
ExitStatus(s) == IF s.compliance_rate < 10000 THEN 1 ELSE 0

-----------------------------------------------------------------------------
(* One run of main() *)

\* the listing call get_resources() issues
ListingCall(scope) ==
    IF scope # "" THEN <<"list_by_resource_group", scope>> ELSE <<"list">>

\* a variant of IssueListing that asks the provider a second time
IssueListingTwice(log, scope) == log \o <<ListingCall(scope), ListingCall(scope)>>

\* one listing call on self.client.resources, list(...) of its result
IssueListing(log, scope) == Append(log, ListingCall(scope))

Init ==
    /\ pc = "authenticate"
    /\ resource_group \in {"", "my-rg"}
    /\ output_format \in {"json", "csv", "text"}
    /\ authOutcome = "pending"
    /\ listOutcome = "pending"
    /\ listLog = <<>>
    /\ resources = <<>>
    /\ idx = 0
    /\ audit_results = <<>>
    /\ lastAudit = NoAudit
    /\ summary = NoSummary
    /\ stdout = <<>>
    /\ stderr = <<>>
    /\ raised = "none"
    /\ exitCode = NotExited

\* run_audit: self.authenticate() succeeds
AuthenticateOk ==
    /\ pc = "authenticate"
    /\ authOutcome' = "ok"
    /\ stderr' = Append(stderr, "Authentication successful.")
    /\ pc' = "get_resources"
    /\ UNCHANGED <<resource_group, output_format, listOutcome, listLog, resources,
                   idx, audit_results, lastAudit, summary, stdout, raised, exitCode>>

\* run_audit: self.authenticate() catches an AzureError or any other Exception,
\* returns False, and run_audit returns []
AuthenticateFails(error) ==
    /\ pc = "authenticate"
    /\ authOutcome' = error
    /\ stderr' = stderr \o <<IF error = "AzureError" THEN "Authentication failed"
                              ELSE "Unexpected error during authentication",
                             "Cannot proceed without authentication.">>
    /\ audit_results' = <<>>
    /\ pc' = "returned"
    /\ UNCHANGED <<resource_group, output_format, listOutcome, listLog, resources,
                   idx, lastAudit, summary, stdout, raised, exitCode>>

\* run_audit: self.get_resources() returns the provider's list
GetResourcesOk(found) ==
    /\ pc = "get_resources"
    /\ listLog' = IssueListing(listLog, resource_group)
    /\ listOutcome' = "ok"
    /\ resources' = found
    /\ audit_results' = <<>>
    /\ IF found = <<>>
       THEN /\ stderr' = stderr \o <<"Scanning", "Found resources to audit.",
                                     "No resources found to audit.">>
            /\ pc' = "returned"
            /\ idx' = idx
       ELSE /\ stderr' = stderr \o <<"Scanning", "Found resources to audit.">>
            /\ pc' = "audit_loop"
            /\ idx' = 1
    /\ UNCHANGED <<resource_group, output_format, authOutcome, lastAudit, summary,
                   stdout, raised, exitCode>>

\* run_audit: the listing call raises; get_resources catches AzureError only
GetResourcesFails(error) ==
    /\ pc = "get_resources"
    /\ listLog' = IssueListing(listLog, resource_group)
    /\ listOutcome' = error
    /\ IF error = "AzureError"
       THEN /\ stderr' = stderr \o <<"Scanning", "Error retrieving resources",
                                     "No resources found to audit.">>
            /\ audit_results' = <<>>
            /\ pc' = "returned"
            /\ raised' = raised
       ELSE /\ stderr' = Append(stderr, "Scanning")
            /\ audit_results' = audit_results
            /\ pc' = "raised"
            /\ raised' = error
    /\ UNCHANGED <<resource_group, output_format, authOutcome, resources, idx,
                   lastAudit, summary, stdout, exitCode>>

\* run_audit: one iteration of  for resource in resources
AuditStep ==
    /\ pc = "audit_loop"
    /\ idx <= Len(resources)
    /\ IF AuditRaises(resources[idx])
       THEN /\ lastAudit' = [called |-> TRUE, resource |-> resources[idx],
                             raises |-> TRUE]
            /\ raised' = "IndexError"
            /\ pc' = "raised"
            /\ UNCHANGED <<audit_results, idx>>
       ELSE /\ lastAudit' = [called |-> TRUE, resource |-> resources[idx],
                             raises |-> FALSE, result |-> audit_resource(resources[idx])]
            /\ audit_results' = Append(audit_results, audit_resource(resources[idx]))
            /\ idx' = idx + 1
            /\ pc' = IF idx = Len(resources) THEN "returned" ELSE "audit_loop"
            /\ raised' = raised
    /\ UNCHANGED <<resource_group, output_format, authOutcome, listOutcome, listLog,
                   resources, summary, stdout, stderr, exitCode>>

\* main: if not audit_results: sys.exit(1)
CheckResults ==
    /\ pc = "returned"
    /\ IF audit_results = <<>>
       THEN /\ stderr' = Append(stderr, "Audit failed or no resources found.")
            /\ exitCode' = 1
            /\ pc' = "done"
       ELSE /\ pc' = "summary"
            /\ UNCHANGED <<stderr, exitCode>>
    /\ UNCHANGED <<resource_group, output_format, authOutcome, listOutcome, listLog,
                   resources, idx, audit_results, lastAudit, summary, stdout, raised>>

\* main: summary = auditor.generate_summary(audit_results)
Summarize(now) ==
    /\ pc = "summary"
    /\ summary' = generate_summary(audit_results, now)
    /\ pc' = "output"
    /\ UNCHANGED <<resource_group, output_format, authOutcome, listOutcome, listLog,
                   resources, idx, audit_results, lastAudit, stdout, stderr, raised,
                   exitCode>>

\* main: the output function selected by --output-format
Output ==
    /\ pc = "output"
    /\ stdout' = stdout \o Render(output_format, audit_results, summary)
    /\ pc' = "exit"
    /\ UNCHANGED <<resource_group, output_format, authOutcome, listOutcome, listLog,
                   resources, idx, audit_results, lastAudit, summary, stderr, raised,
                   exitCode>>

\* main: sys.exit(1) or sys.exit(0) on the compliance rate
Exit ==
    /\ pc = "exit"
    /\ exitCode' = ExitStatus(summary)
    /\ pc' = "done"
    /\ UNCHANGED <<resource_group, output_format, authOutcome, listOutcome, listLog,
                   resources, idx, audit_results, lastAudit, summary, stdout, stderr,
                   raised>>

\* an exception nothing catches leaves main(): the interpreter prints the
\* traceback and the process ends with status 1
Uncaught ==
    /\ pc = "raised"
    /\ stderr' = Append(stderr, "Traceback")
    /\ exitCode' = 1
    /\ pc' = "done"
    /\ UNCHANGED <<resource_group, output_format, authOutcome, listOutcome, listLog,
                   resources, idx, audit_results, lastAudit, summary, stdout, raised>>

Next ==
    \/ AuthenticateOk
    \/ \E error \in {"AzureError", "Exception"} : AuthenticateFails(error)
    \/ \E found \in ResourceLists : GetResourcesOk(found)
    \/ \E error \in {"AzureError", "Exception"} : GetResourcesFails(error)
    \/ AuditStep
    \/ CheckResults
    \/ \E now \in Clock : Summarize(now)
    \/ Output
    \/ Exit
    \/ Uncaught

Spec == Init /\ [][Next]_vars

-----------------------------------------------------------------------------
(* The functions applied directly: audit_resource to one resource record,   *)
(* generate_summary and output_csv to a list of audit results.              *)

\* the results audit_resource returns for the modelled records
AuditResults == {audit_resource(r) : r \in {x \in Records : ~AuditRaises(x)}}

CompliantResult ==
    audit_resource(Resource("vm2", FullId, Dict({"environment", "owner", "project"}, "x")))

NonCompliantResult == audit_resource(Resource("vm1", FullId, NoneTags))

\* long lists: BulkLen compliant results and one more result
BulkInputs ==
    {[i \in 1..BulkLen |-> CompliantResult] \o <<last>> :
        last \in {CompliantResult, NonCompliantResult}}

FnInputs == SeqsUpTo(AuditResults, MaxLen) \cup BulkInputs

InitFn ==
    /\ \/ /\ pc = "fn_audit"
          /\ resources \in {<<r>> : r \in Records}
          /\ audit_results = <<>>
       \/ /\ pc = "fn_summary"
          /\ resources = <<>>
          /\ audit_results \in FnInputs
    /\ resource_group = ""
    /\ output_format = "csv"
    /\ authOutcome = "pending"
    /\ listOutcome = "pending"
    /\ listLog = <<>>
    /\ idx = 0
    /\ lastAudit = NoAudit
    /\ summary = NoSummary
    /\ stdout = <<>>
    /\ stderr = <<>>
    /\ raised = "none"
    /\ exitCode = NotExited

\* auditor.audit_resource(resources[1])
FnAuditResource ==
    /\ pc = "fn_audit"
    /\ IF AuditRaises(resources[1])
       THEN /\ lastAudit' = [called |-> TRUE, resource |-> resources[1], raises |-> TRUE]
            /\ raised' = "IndexError"
       ELSE /\ lastAudit' = [called |-> TRUE, resource |-> resources[1],
                             raises |-> FALSE, result |-> audit_resource(resources[1])]
            /\ raised' = raised
    /\ pc' = "fn_done"
    /\ UNCHANGED <<resource_group, output_format, authOutcome, listOutcome, listLog,
                   resources, idx, audit_results, summary, stdout, stderr, exitCode>>

\* TagAuditor.generate_summary(audit_results)
FnGenerateSummary(now) ==
    /\ pc = "fn_summary"
    /\ summary' = generate_summary(audit_results, now)
    /\ pc' = "fn_output"
    /\ UNCHANGED <<resource_group, output_format, authOutcome, listOutcome, listLog,
                   resources, idx, audit_results, lastAudit, stdout, stderr, raised,
                   exitCode>>

\* output_csv(audit_results, summary)
FnOutputCsv ==
    /\ pc = "fn_output"
    /\ stdout' = output_csv(audit_results, summary)
    /\ pc' = "fn_done"
    /\ UNCHANGED <<resource_group, output_format, authOutcome, listOutcome, listLog,
                   resources, idx, audit_results, lastAudit, summary, stderr, raised,
                   exitCode>>

NextFn ==
    \/ FnAuditResource
    \/ \E now \in Clock : FnGenerateSummary(now)
    \/ FnOutputCsv

SpecFn == InitFn /\ [][NextFn]_vars

-----------------------------------------------------------------------------
(* Properties of a run of main(), checked under Spec *)

\* run_audit has ended, by returning or by raising
RunAuditOver == pc \in {"returned", "raised", "summary", "output", "exit", "done"}

Failures == {"AzureError", "Exception"}

\* C1: when main() has ended, the exit code is 0 if a summary was computed and
\* its compliance rate is 100, and 1 otherwise; when run_audit returned no
\* results the exit code is 1, no summary was computed and nothing was rendered.
C1_ExitCodeFollowsRate ==
    /\ pc = "done" <=> exitCode # NotExited
    /\ pc = "done" =>
         exitCode = (IF ~summary.none /\ summary.compliance_rate = 10000 THEN 0 ELSE 1)
    /\ (pc = "done" /\ raised = "none" /\ audit_results = <<>>) =>
         /\ exitCode = 1
         /\ summary.none
         /\ stdout = <<>>

\* C1 witness: a run over two resources, both compliant, has exited with 0 after
\* rendering its report.
C1_Witness ==
    /\ pc = "done"
    /\ exitCode = 0
    /\ Len(audit_results) = 2
    /\ summary.compliance_rate = 10000
    /\ stdout # <<>>

\* C5: a resource whose id has no segment at index 4 gets resource_group
\* 'unknown' and never aborts the run, so run_audit returns one result per
\* resource received; when the segment exists, resource_group is that segment.
C5_MalformedIdNeverAborts ==
    /\ raised # "IndexError"
    /\ \A i \in 1..Len(audit_results) :
          audit_results[i].resource_group =
              (IF Len(Split(resources[i].id)) >= 5 THEN Split(resources[i].id)[5]
               ELSE Unknown)
    /\ (listOutcome = "ok" /\ RunAuditOver) => Len(audit_results) = Len(resources)

\* C6: every failure of the provider, during authentication or during the
\* listing call, an AzureError or any other exception, ends run_audit with an
\* empty result list and a diagnostic on the error stream; nothing propagates.
C6_FailuresCaughtAtBoundary ==
    (authOutcome \in Failures \/ listOutcome \in Failures) =>
        /\ raised = "none"
        /\ RunAuditOver
        /\ audit_results = <<>>
        /\ \E i \in 1..Len(stderr) :
              stderr[i] \in {"Authentication failed",
                             "Unexpected error during authentication",
                             "Error retrieving resources"}

\* C7 as stated: every run of run_audit has issued exactly one listing call.
C7_ListingExactlyOncePerRun == RunAuditOver => Len(listLog) = 1

\* C7 amended: a run of run_audit issues at most one listing call: exactly one
\* when authentication succeeded (never repeated after a failure or an empty
\* result), none when it failed; the call is list_by_resource_group on the scope
\* when a scope is set and list otherwise.
C7_ListingOnceWhenAuthenticated ==
    /\ Len(listLog) <= 1
    /\ RunAuditOver => Len(listLog) = (IF authOutcome = "ok" THEN 1 ELSE 0)
    /\ \A i \in 1..Len(listLog) :
          /\ resource_group # "" => listLog[i] = <<"list_by_resource_group", resource_group>>
          /\ resource_group = "" => listLog[i] = <<"list">>

\* C7 witness: the listing failed with an AzureError in a scoped run, run_audit
\* has returned, and one call was issued.
C7_Witness ==
    /\ pc = "returned"
    /\ listOutcome = "AzureError"
    /\ resource_group # ""
    /\ Len(listLog) = 1

\* C8: when authentication and the listing succeed with N >= 1 resources,
\* run_audit returns N results, the i-th being audit_resource of the i-th
\* resource received.
C8_OneResultPerResourceInOrder ==
    (authOutcome = "ok" /\ listOutcome = "ok" /\ Len(resources) >= 1 /\ RunAuditOver) =>
        /\ raised = "none"
        /\ Len(audit_results) = Len(resources)
        /\ \A i \in 1..Len(resources) : audit_results[i] = audit_resource(resources[i])

-----------------------------------------------------------------------------
(* Properties of the functions, checked under SpecFn *)

Returned == lastAudit.called /\ ~lastAudit.raises

\* the keys of the tag mapping of a resource record, none when tags is absent
TagKeys(resource) == IF resource.tags.none THEN {} ELSE DOMAIN resource.tags.map

RequiredSet == {REQUIRED_TAGS[i] : i \in 1..Len(REQUIRED_TAGS)}

PositionOf(tag) == CHOOSE i \in 1..Len(REQUIRED_TAGS) : REQUIRED_TAGS[i] = tag

\* C2: the missing_tags audit_resource returns are exactly the required names
\* that are not keys of the resource's tags (exact key match, any value, absent
\* tags as no keys), in the required-tag order, and compliant holds iff there
\* are none: no required key gives all three names, all three keys give none.
C2_MissingTagsExact ==
    Returned =>
        LET keys == TagKeys(lastAudit.resource)
            m == lastAudit.result.missing_tags
        IN  /\ {m[i] : i \in 1..Len(m)} = {t \in RequiredSet : t \notin keys}
            /\ \A i, j \in 1..Len(m) : i < j => PositionOf(m[i]) < PositionOf(m[j])
            /\ lastAudit.result.compliant <=> m = <<>>
            /\ keys \cap RequiredSet = {} =>
                 m = <<"environment", "owner", "project">> /\ ~lastAudit.result.compliant
            /\ RequiredSet \subseteq keys => m = <<>> /\ lastAudit.result.compliant

\* C2 witness: a resource carrying the three required keys with empty-string
\* values was audited and found compliant.
C2_Witness ==
    /\ Returned
    /\ TagKeys(lastAudit.resource) = RequiredSet
    /\ \A k \in RequiredSet : lastAudit.resource.tags.map[k] = ""
    /\ lastAudit.result.missing_tags = <<>>
    /\ lastAudit.result.compliant

\* C3: every result of audit_resource has an integer compliance_percentage in
\* 0..100 equal to floor((R - M) / R * 100), compliant iff it is 100, and M plus
\* the number of required tags present equal to R (R = 3 required, M missing).
C3_PercentageIsFloor ==
    Returned =>
        LET R == Len(REQUIRED_TAGS)
            M == Len(lastAudit.result.missing_tags)
            pct == lastAudit.result.compliance_percentage
        IN  /\ R = 3
            /\ pct \in 0..100
            /\ pct * R <= (R - M) * 100
            /\ (R - M) * 100 < (pct + 1) * R
            /\ lastAudit.result.compliant <=> pct = 100
            /\ M + Cardinality(TagKeys(lastAudit.resource) \cap RequiredSet) = R

\* C3 witness: a resource with one required tag was audited: two missing, 33.
C3_Witness ==
    /\ Returned
    /\ Len(lastAudit.result.missing_tags) = 2
    /\ lastAudit.result.compliance_percentage = 33

\* C4 as stated: a resource missing exactly one required tag gets 67.
C4_OneMissingIs67 ==
    (Returned /\ Len(lastAudit.result.missing_tags) = 1) =>
        lastAudit.result.compliance_percentage = 67

\* C4 amended: a resource missing exactly one required tag, whichever it is,
\* gets compliance_percentage 66.
C4_OneMissingIs66 ==
    (Returned /\ Len(lastAudit.result.missing_tags) = 1) =>
        lastAudit.result.compliance_percentage = 66

\* C4 witness: a resource missing only 'owner' was audited.
C4_Witness ==
    /\ Returned
    /\ lastAudit.result.missing_tags = <<"owner">>
    /\ TagKeys(lastAudit.resource) = {"environment", "project"}

Summarized == pc \in {"fn_output", "fn_done"} /\ ~summary.none

NumCompliant == Len(SelectSeq(audit_results, LAMBDA r : r.compliant))

Abs(x) == IF x < 0 THEN -x ELSE x

\* the counts and the rate of generate_summary over a list in another order
CountsOf(s) ==
    <<s.total_resources, s.compliant_resources, s.non_compliant_resources,
      s.compliance_rate>>

Reordered(results, perm) == [i \in 1..Len(results) |-> results[perm[i]]]

\* C9 as stated, its last part: the compliance rate is 100 exactly when the
\* list is not empty and every result is compliant.
C9_RateIs100IffAllCompliant ==
    Summarized =>
        (summary.compliance_rate = 10000
            <=> (Len(audit_results) > 0 /\ NumCompliant = Len(audit_results)))

\* C9 amended: generate_summary returns total_resources = N, compliant_resources
\* = C, non_compliant_resources = N - C, compliance_rate = round(C/N*100, 2) for
\* N > 0 and 0 for N = 0, whatever the order of the list; the rate is 100
\* whenever N > 0 and C = N, and also whenever C < N rounds to 100.00
\* (20000 * (N - C) <= N).
C9_SummaryCounts ==
    Summarized =>
        LET N == Len(audit_results)
            C == NumCompliant
        IN  /\ summary.total_resources = N
            /\ summary.compliant_resources = C
            /\ summary.non_compliant_resources = N - C
            /\ N = 0 => summary.compliance_rate = 0
            /\ N > 0 => 2 * Abs(summary.compliance_rate * N - C * 10000) <= N
            /\ summary.compliance_rate = 10000 <=> (N > 0 /\ 20000 * (N - C) <= N)
            /\ (N > 0 /\ C = N) => summary.compliance_rate = 10000
            /\ N <= MaxLen =>
                 \A perm \in Permutations(1..N) :
                    CountsOf(generate_summary(Reordered(audit_results, perm), "t"))
                        = CountsOf(summary)

\* C9 witness: a summary of BulkLen compliant results and one that is not
\* compliant: the rate rounds to 100.00.
C9_Witness ==
    /\ Summarized
    /\ Len(audit_results) = BulkLen + 1
    /\ NumCompliant = BulkLen
    /\ summary.non_compliant_resources = 1
    /\ summary.compliance_rate = 10000

CsvRendered == pc = "fn_done" /\ ~summary.none

CommentPrefixes ==
    <<"# Audit Timestamp: ", "# Total Resources: ", "# Compliant: ",
      "# Non-Compliant: ", "# Compliance Rate: ">>

\* lines 1..5 are the '#' comments, line 6 is blank
CsvPreamble ==
    /\ Len(stdout) >= 6
    /\ \A i \in 1..5 : stdout[i].via = "print" /\ stdout[i].text[1] = CommentPrefixes[i]
    /\ stdout[6].via = "print" /\ stdout[6].text = <<>>

\* lines first.. are one data row per result, in input order
CsvRows(first) ==
    /\ Len(stdout) = first - 1 + Len(audit_results)
    /\ \A i \in 1..Len(audit_results) :
          LET line == stdout[first - 1 + i]
              r == audit_results[i]
          IN  /\ line.via = "writerow"
              /\ Len(line.cells) = 7
              /\ line.cells[1] = r.resource_name
              /\ line.cells[5] = r.compliant
              /\ line.cells[6] = r.compliance_percentage
              /\ r.missing_tags = <<>> <=> line.cells[7] = "none"
              /\ r.missing_tags = <<"owner", "project">> => line.cells[7] = "owner, project"

CsvHeaderAt(i) ==
    /\ Len(stdout) >= i
    /\ stdout[i].via = "writeheader"
    /\ stdout[i].cells = <<"resource_name", "resource_type", "resource_group",
                           "location", "compliant", "compliance_percentage",
                           "missing_tags">>

\* C10 as stated: for every N >= 0, output_csv emits 5 comment lines, 1 blank
\* line, 1 header row and N data rows.
C10_CsvLayoutEveryN ==
    CsvRendered => CsvPreamble /\ CsvHeaderAt(7) /\ CsvRows(8)

\* C10 amended: for N >= 1, output_csv emits 5 comment lines, 1 blank line, 1
\* header row and N data rows in input order, missing_tags being 'none' when
\* empty; for N = 0 it emits the 5 comment lines and the blank line only.
C10_CsvLayout ==
    CsvRendered =>
        /\ CsvPreamble
        /\ Len(audit_results) >= 1 => CsvHeaderAt(7) /\ CsvRows(8)
        /\ Len(audit_results) = 0 => Len(stdout) = 6

\* C10 witness: two results were rendered, the first with no missing tag, the
\* second missing two.
C10_Witness ==
    /\ CsvRendered
    /\ Len(audit_results) = 2
    /\ audit_results[1].missing_tags = <<>>
    /\ audit_results[2].missing_tags = <<"owner", "project">>
    /\ Len(stdout) = 9

====
